---- MODULE Spec2Model ----
(***************************************************************************)
(* Model of salute/jazz.py: the SaluteJazzAPI client (access token cache   *)
(* and room operations) and the batch room provisioner create_rooms.       *)
(*                                                                         *)
(* Callers are asyncio coroutines on one event loop: a step of the model   *)
(* is the code a coroutine runs between two suspension points (await,      *)
(* async-with entry and exit), so statements with no await between them    *)
(* are one atomic action.  The remote service and the wall clock are the   *)
(* environment: responses are drawn from small sets, time advances by      *)
(* Tick while coroutines are suspended.                                    *)
(***************************************************************************)
EXTENDS Integers, Sequences, FiniteSets, TLC

\* ---------------------------------------------------------------- bounds
MaxCount == 3        \* largest count passed to create_rooms
MaxEntries == 3      \* longest transcriptions list given to the normalizer
MaxUrlLen == 5       \* longest room URL, in characters
MaxCalls == 2        \* calls of parse_transcriptions with the same arguments
MaxTime == 7200      \* the clock stops advancing here
TickStep == 3600     \* seconds the clock advances in one Tick

\* ------------------------------------------------------ program constants
TokenTTL == 3600     \* time.time() + 3600
JwtTTL == 3600       \* datetime.timedelta(hours=1)
SleepSeconds == 1    \* asyncio.sleep(1)
NoContent == 204     \* response.status == 204
MskOffsetHours == 3  \* datetime.timezone(datetime.timedelta(hours=3))

\* Concurrent callers of the client
Procs == {1, 2}

\* Python's None, as a value distinct from every token string
None == "<None>"

\* Truth value of a token slot in `if self.access_token and ...`
Truthy(v) == v # None /\ v # ""

\* ------------------------------------------------------------ environment
\* Token strings the auth endpoint may hand out; the token field of a
\* response body holds one of them or null.  The code reads no expiry from
\* the token or the body, so tokens carry none.
Tokens == {"tokA", "tokB"}
TokenValues == Tokens \cup {None}

\* HTTP statuses the remote may answer with
Statuses == {200, 204, 404}
AuthStatuses == {200, 401}

Urls == {"https://x/y/r1", "https://x/y/r2"}

\* A response body: json = FALSE is a body response.json() cannot parse,
\* otherwise obj is the decoded JSON object (a record).
Unparsable == [json |-> FALSE, obj |-> [error |-> "not json"]]
Json(o) == [json |-> TRUE, obj |-> o]
HasField(body, f) == f \in DOMAIN body.obj

ErrorObj == [error |-> "failed"]

AuthBodies ==
    {Unparsable, Json(ErrorObj)} \cup {Json([token |-> t]) : t \in TokenValues}

CreateBodies ==
    {Unparsable, Json(ErrorObj)}
        \cup {Json([roomId |-> "r", roomUrl |-> u]) : u \in Urls}

\* Transcription entries the remote may hold: createdAt is a UTC time
\* ("...Z") in minutes of the day; an entry may lack a field
EntryAlice11 == [participantName |-> "Alice", text |-> "hi", createdAt |-> 660]
EntryBob12 == [participantName |-> "Bob", text |-> "yo", createdAt |-> 720]
EntryAlice13 == [participantName |-> "Alice", text |-> "ok", createdAt |-> 780]
EntryLower == [participantName |-> "alice", text |-> "psst", createdAt |-> 720]
EntryNameless == [text |-> "hm", createdAt |-> 720]
EntryUndated == [participantName |-> "Alice", text |-> "late"]
Entries == {EntryAlice11, EntryBob12, EntryAlice13, EntryLower,
            EntryNameless, EntryUndated}

TranscriptionBodies ==
    {Unparsable, Json(ErrorObj),
     Json([transcriptions |-> <<EntryAlice11, EntryBob12>>,
           roomId |-> "room-1"])}

\* Room operations of SaluteJazzAPI
RoomOps == {"create_room", "disable_transcription", "disable_room",
            "get_transcriptions"}

\* Slip: the loop index used as it is, titles starting at "Room #0"
RoomTitleZeroBased(i) == <<"Room #", i>>

\* f"Room #{i+1}" for loop index i
RoomTitle(i) == <<"Room #", i + 1>>

\* The request an operation of the client sends
RoomRequestOf(p_op) ==
    IF p_op = "create_rooms" THEN "create_room" ELSE p_op

BodiesOf(rop) ==
    CASE rop = "create_room" -> CreateBodies
      [] rop = "get_transcriptions" -> TranscriptionBodies
      [] OTHER -> {Unparsable}

\* ------------------------------------------------- transcription text
\* Strings that the code builds are sequences of pieces; the empty string
\* is the empty sequence
Str(x) == IF x = "" THEN <<>> ELSE <<x>>

RECURSIVE Join(_, _)
\* sep.join(lines)
Join(lines, sep) ==
    IF lines = <<>> THEN <<>>
    ELSE IF Len(lines) = 1 THEN lines[1]
    ELSE lines[1] \o sep \o Join(Tail(lines), sep)

\* d.get(f, default)
Get(d, f, default) == IF f \in DOMAIN d THEN d[f] ELSE default

\* json.dumps / json.loads between a JSON value and its text
JsonDumps(o) == <<"json", o>>
JsonLoads(text) == text[2]

\* The placeholder of entry.get('participantName', ...)
UnknownName == "Unknown"

\* A datetime: civil minutes of the day t, with a UTC offset in hours when
\* it is aware; set = FALSE stands for None
NoBound == [set |-> FALSE, t |-> 0, aware |-> FALSE, off |-> 0]
Naive(t) == [set |-> TRUE, t |-> t, aware |-> FALSE, off |-> 0]
Aware(t, off) == [set |-> TRUE, t |-> t, aware |-> TRUE, off |-> off]

\* if b.tzinfo is None: b = b.replace(tzinfo=msk_timezone)
AsMoscowIfNaive(b) ==
    IF b.aware THEN b ELSE [b EXCEPT !.aware = TRUE, !.off = MskOffsetHours]

\* b.astimezone(datetime.timezone.utc), in minutes of the day
ToUtc(b) == b.t - b.off * 60

\* Slip: the end of the window excluded
AfterEndExclusive(created, en) == en.set /\ created >= ToUtc(en)

\* if end_time_utc and created_at_utc > end_time_utc: continue
AfterEnd(created, en) == en.set /\ created > ToUtc(en)

\* if start_time_utc and created_at_utc < start_time_utc: continue
BeforeStart(created, st) == st.set /\ created < ToUtc(st)

\* Slip: names compared without regard to case
NameKnownAnyCase(t, known_names) ==
    LET n == Get(t, "participantName", None)
    IN  n \in known_names \/ (n = "alice" /\ "Alice" \in known_names)

\* not (t.get('participantName') not in known_names)
NameKnown(t, known_names) == Get(t, "participantName", None) \in known_names

RECURSIVE FilterFrom(_, _, _, _, _, _)
\* The filtering loop of parse_transcriptions from entry i on: st and en
\* are start_time and end_time as rebound so far, acc is `filtered`.
\* Gives the list, or the exception that ends the loop.
FilterFrom(ts, i, known_names, st, en, acc) ==
    IF i > Len(ts) THEN [kind |-> "return", val |-> acc]
    ELSE LET t == ts[i] IN
      IF ~NameKnown(t, known_names)
        THEN FilterFrom(ts, i + 1, known_names, st, en, acc)
      ELSE IF ~(st.set \/ en.set)
        THEN FilterFrom(ts, i + 1, known_names, st, en, Append(acc, t))
      ELSE IF "createdAt" \notin DOMAIN t
        THEN [kind |-> "raise", val |-> "KeyError"]
      ELSE LET st2 == IF st.set THEN AsMoscowIfNaive(st) ELSE st
               en2 == IF en.set THEN AsMoscowIfNaive(en) ELSE en
           IN  IF BeforeStart(t.createdAt, st2) \/ AfterEnd(t.createdAt, en2)
                 THEN FilterFrom(ts, i + 1, known_names, st2, en2, acc)
                 ELSE FilterFrom(ts, i + 1, known_names, st2, en2,
                                 Append(acc, t))

\* f"{name}: {text}" of one filtered entry
DialogLine(entry) ==
    Str(Get(entry, "participantName", UnknownName)) \o <<": ">>
        \o Str(Get(entry, "text", ""))

\* Slip: data['transcriptions'] read without a default
ParsedTextRequiringList(transcriptions_json, known_names, start_time, end_time) ==
    LET data == JsonLoads(transcriptions_json)
    IN  IF "transcriptions" \notin DOMAIN data
          THEN [kind |-> "raise", val |-> "KeyError"]
          ELSE LET filtered == FilterFrom(data.transcriptions, 1, known_names,
                                          start_time, end_time, <<>>)
               IN  IF filtered.kind = "raise" THEN filtered
                   ELSE [kind |-> "return",
                         val |-> Join([i \in 1..Len(filtered.val) |->
                                         DialogLine(filtered.val[i])],
                                      <<"\n">>)]

\* parse_transcriptions up to `parsed_text`: the rendered text, or the
\* exception raised
ParsedText(transcriptions_json, known_names, start_time, end_time) ==
    LET data == JsonLoads(transcriptions_json)
        filtered == FilterFrom(Get(data, "transcriptions", <<>>), 1,
                               known_names, start_time, end_time, <<>>)
    IN  IF filtered.kind = "raise" THEN filtered
        ELSE [kind |-> "return",
              val |-> Join([i \in 1..Len(filtered.val) |->
                              DialogLine(filtered.val[i])], <<"\n">>)]

\* room_id = "unknown"; if data.get('roomId'): room_id = data['roomId']
LogRoomId(data) ==
    IF Truthy(Get(data, "roomId", None)) THEN data.roomId ELSE "unknown"

\* parsed_text of log_transcription: absent (None) or a text
NoText == [given |-> FALSE, text |-> <<>>]
Text(x) == [given |-> TRUE, text |-> x]

\* log_entry of log_transcription: the raw section, and the parsed section
\* `if parsed_text:`
LogEntry(room_id, transcription_data, parsed_text, timestamp) ==
    [timestamp |-> timestamp, room_id |-> room_id,
     raw |-> transcription_data,
     has_parsed |-> parsed_text.given /\ parsed_text.text # <<>>,
     parsed |-> parsed_text.text]

\* Slip: a failed write of the log propagating to the caller
LogRaisesOnFailure(written) == ~written

\* log_transcription wraps the write in try / except Exception: whether or
\* not the entry was written, nothing is raised
LogRaises(written) == FALSE

\* ------------------------------------------------------------ room URLs
\* A URL is a sequence of characters
UrlChars == {"r", "/", "?"}

\* Positions of character c in s
Positions(s, c) == {i \in 1..Len(s) : s[i] = c}
Max(S) == CHOOSE x \in S : \A y \in S : y <= x
Min(S) == CHOOSE x \in S : \A y \in S : x <= y

\* s.split(c)[-1]
SplitLast(s, c) ==
    IF Positions(s, c) = {} THEN s
    ELSE SubSeq(s, Max(Positions(s, c)) + 1, Len(s))

\* s.split(c)[0]
SplitFirst(s, c) ==
    IF Positions(s, c) = {} THEN s
    ELSE SubSeq(s, 1, Min(Positions(s, c)) - 1)

\* room_url.split('/')[-1].split('?')[0]
RoomIdOf(room_url) == SplitFirst(SplitLast(room_url, "/"), "?")

VARIABLES
    now,            \* time.time()
    access_token,   \* self.access_token
    token_expires,  \* self.token_expires
    lastDone,       \* the auth exchange that completed last (history)
    pc,             \* where each caller is suspended
    op,             \* the operation each caller runs
    arg,            \* its argument: room title or room id
    tok,            \* the value _get_access_token returns / local `token`
    via,            \* how the current _get_access_token call got its value
    exch,           \* auth exchanges issued by the current _get_access_token call
    jwt,            \* jwt_payload of the current call: iat is the call time
    resp,           \* the last response the caller received
    result,         \* outcome of the caller's operation
    ev,             \* room requests sent and answers received, per caller
    count,          \* create_rooms: count
    idx,            \* create_rooms: loop variable i
    rooms,          \* create_rooms: rooms dict
    sleeps,         \* create_rooms: asyncio.sleep(1) calls entered
    saved_file,     \* contents of save_path, None while never written
    grt,            \* get_room_transcription: its stage, room_url, room_id
                    \* and outcome
    nin,            \* arguments the caller passes to parse_transcriptions
    nout,           \* outcomes of the parse_transcriptions calls, in order
    log_file,       \* entries appended to transcriptions_log.txt
    log_printed     \* what each log_transcription call printed

tokenVars == <<access_token, token_expires, lastDone>>
callVars == <<tok, via, exch, jwt>>
batchVars == <<count, idx, rooms, sleeps, saved_file>>
normVars == <<grt, nin, nout, log_file, log_printed>>
vars == <<now, access_token, token_expires, lastDone, pc, op, arg, tok, via,
          exch, jwt, resp, result, ev, count, idx, rooms, sleeps, saved_file,
          grt, nin, nout, log_file, log_printed>>

NoResp == [ep |-> "none", sent |-> FALSE, status |-> 0, body |-> Unparsable]
NoResult == [kind |-> "none", val |-> None]
EmptyDict == [t \in {} |-> None]

NoCall == [stage |-> "idle", room_url |-> <<>>, room_id |-> <<>>,
           result |-> NoResult]
NoArgs == [set |-> FALSE, transcriptions_json |-> JsonDumps(EmptyDict),
           known_names |-> {}, start_time |-> NoBound, end_time |-> NoBound]

\* Callers at their start, with nothing fetched, parsed or logged yet
InitCallers ==
    /\ now = 0
    /\ pc = [p \in Procs |-> "idle"]
    /\ op = [p \in Procs |-> "none"]
    /\ arg = [p \in Procs |-> None]
    /\ tok = [p \in Procs |-> None]
    /\ via = [p \in Procs |-> "none"]
    /\ exch = [p \in Procs |-> 0]
    /\ jwt = [p \in Procs |-> [iat |-> 0, exp |-> 0]]
    /\ resp = [p \in Procs |-> NoResp]
    /\ result = [p \in Procs |-> NoResult]
    /\ ev = [p \in Procs |-> <<>>]
    /\ count = [p \in Procs |-> 0]
    /\ idx = [p \in Procs |-> 0]
    /\ rooms = [p \in Procs |-> EmptyDict]
    /\ sleeps = [p \in Procs |-> 0]
    /\ saved_file = None
    /\ grt = NoCall
    /\ nout = <<>>
    /\ log_file = <<>>
    /\ log_printed = <<>>

\* SaluteJazzAPI.__init__: the slot is empty
InitSlot ==
    /\ access_token = None
    /\ token_expires = 0
    /\ lastDone = [by |-> 0, token |-> None, at |-> 0]

\* The module as loaded, before any caller passes arguments to the parser
Init == InitCallers /\ InitSlot /\ nin = NoArgs

\* ------------------------------------------------------------- outcomes
\* The operation of caller p ends by returning v
Return(p, v) ==
    /\ pc' = [pc EXCEPT ![p] = "done"]
    /\ result' = [result EXCEPT ![p] = [kind |-> "return", val |-> v]]

\* The operation of caller p ends with exception e propagating to its caller
Raise(p, e) ==
    /\ pc' = [pc EXCEPT ![p] = "done"]
    /\ result' = [result EXCEPT ![p] = [kind |-> "raise", val |-> e]]

\* ------------------------------------------------------- token cache
\* Slip: the comparison turned round, a token counted valid once expired
CacheValidInverted == Truthy(access_token) /\ now > token_expires

\* Slip: a token counted valid at the very second it expires
CacheValidAtExpiry == Truthy(access_token) /\ now <= token_expires

\* if self.access_token and time.time() < self.token_expires
CacheValid == Truthy(access_token) /\ now < token_expires

\* jwt_payload: iat = utcnow(), exp = iat + 1 hour
JwtPayload(t) == [iat |-> t, exp |-> t + JwtTTL]

\* session.post / session.get of a room operation is issued with
\* 'Authorization': f'Bearer {token}'
SendRoomRequest(p, t) ==
    /\ ev' = [ev EXCEPT ![p] = Append(@,
                [kind |-> "request", op |-> RoomRequestOf(op[p]),
                 arg |-> arg[p], bearer |-> t])]
    /\ pc' = [pc EXCEPT ![p] = "room_post"]

\* Slip: the token stored without its expiry
StoreTokenNoExpiry(p, t) ==
    /\ access_token' = t
    /\ token_expires' = token_expires
    /\ lastDone' = [by |-> p, token |-> t, at |-> now]

\* Slip: the expiry counted from the time the assertion was built
StoreTokenFromCallTime(p, t) ==
    /\ access_token' = t
    /\ token_expires' = jwt[p].iat + TokenTTL
    /\ lastDone' = [by |-> p, token |-> t, at |-> now]

\* self.access_token = data['token']; self.token_expires = time.time() + 3600
StoreToken(p, t) ==
    /\ access_token' = t
    /\ token_expires' = now + TokenTTL
    /\ lastDone' = [by |-> p, token |-> t, at |-> now]

\* A caller starts one room operation of the client
StartRoomOp(p) ==
    /\ pc[p] = "idle"
    /\ \E o \in RoomOps :
        /\ op' = [op EXCEPT ![p] = o]
        /\ arg' = [arg EXCEPT ![p] =
                      IF o = "create_room" THEN <<"Standup", 0>> ELSE "abc123"]
    /\ pc' = [pc EXCEPT ![p] = "call"]
    /\ UNCHANGED <<normVars, now, tokenVars, callVars, resp, result, ev, batchVars>>

\* A caller starts create_rooms(count): rooms = {}
StartCreateRooms(p) ==
    /\ pc[p] = "idle"
    /\ op' = [op EXCEPT ![p] = "create_rooms"]
    /\ \E c \in 0..MaxCount : count' = [count EXCEPT ![p] = c]
    /\ idx' = [idx EXCEPT ![p] = 0]
    /\ rooms' = [rooms EXCEPT ![p] = EmptyDict]
    /\ pc' = [pc EXCEPT ![p] = "loop"]
    /\ UNCHANGED <<normVars, now, tokenVars, arg, callVars, resp, result, ev, sleeps,
                   saved_file>>

\* _get_access_token, cache hit: return self.access_token; the room
\* operation goes on to send its request without suspending
GetTokenHit(p) ==
    /\ pc[p] = "call"
    /\ CacheValid
    /\ tok' = [tok EXCEPT ![p] = access_token]
    /\ via' = [via EXCEPT ![p] = "hit"]
    /\ exch' = [exch EXCEPT ![p] = 0]
    /\ SendRoomRequest(p, access_token)
    /\ UNCHANGED <<normVars, now, tokenVars, op, arg, jwt, resp, result, batchVars>>

\* _get_access_token, cache miss: build the assertion and post it to
\* /v1/auth/login; the coroutine suspends until the response arrives
GetTokenMiss(p) ==
    /\ pc[p] = "call"
    /\ ~CacheValid
    /\ jwt' = [jwt EXCEPT ![p] = JwtPayload(now)]
    /\ via' = [via EXCEPT ![p] = "refresh"]
    /\ exch' = [exch EXCEPT ![p] = 1]
    /\ pc' = [pc EXCEPT ![p] = "auth_post"]
    /\ UNCHANGED <<normVars, now, tokenVars, op, arg, tok, resp, result, ev, batchVars>>

\* The auth exchange fails in transport: session.post raises
AuthTransportFail(p) ==
    /\ pc[p] = "auth_post"
    /\ resp' = [resp EXCEPT ![p] =
                  [ep |-> "auth", sent |-> FALSE, status |-> 0,
                   body |-> Unparsable]]
    /\ Raise(p, "ClientError")
    /\ UNCHANGED <<normVars, now, tokenVars, op, arg, callVars, ev, batchVars>>

\* Slip: the expiry advanced as soon as a response arrives, before the body
\* is parsed and the token read
AuthCompleteExpiryFirst(p) ==
    /\ pc[p] = "auth_post"
    /\ \E s \in AuthStatuses, b \in AuthBodies :
        /\ resp' = [resp EXCEPT ![p] =
                      [ep |-> "auth", sent |-> TRUE, status |-> s, body |-> b]]
        /\ IF ~b.json \/ ~HasField(b, "token")
             THEN /\ Raise(p, IF b.json THEN "KeyError" ELSE "ContentTypeError")
                  /\ token_expires' = now + TokenTTL
                  /\ UNCHANGED <<access_token, lastDone, tok>>
             ELSE /\ StoreToken(p, b.obj.token)
                  /\ tok' = [tok EXCEPT ![p] = access_token']
                  /\ pc' = [pc EXCEPT ![p] = "auth_exit"]
                  /\ result' = result
    /\ UNCHANGED <<normVars, now, op, arg, via, exch, jwt, ev, batchVars>>

\* The auth response arrives: data = await response.json();
\* self.access_token = data['token']; self.token_expires = ...;
\* return self.access_token (the value is fixed here, the sessions close next)
AuthComplete(p) ==
    /\ pc[p] = "auth_post"
    /\ \E s \in AuthStatuses, b \in AuthBodies :
        /\ resp' = [resp EXCEPT ![p] =
                      [ep |-> "auth", sent |-> TRUE, status |-> s, body |-> b]]
        /\ IF ~b.json
             THEN /\ Raise(p, "ContentTypeError")
                  /\ UNCHANGED <<tokenVars, tok>>
             ELSE IF ~HasField(b, "token")
             THEN /\ Raise(p, "KeyError")
                  /\ UNCHANGED <<tokenVars, tok>>
             ELSE /\ StoreToken(p, b.obj.token)
                  /\ tok' = [tok EXCEPT ![p] = access_token']
                  /\ pc' = [pc EXCEPT ![p] = "auth_exit"]
                  /\ result' = result
    /\ UNCHANGED <<normVars, now, op, arg, via, exch, jwt, ev, batchVars>>

\* Slip: the slot read again when the caller resumes
GetTokenReturnSlot(p) ==
    /\ pc[p] = "auth_exit"
    /\ SendRoomRequest(p, access_token)
    /\ UNCHANGED <<normVars, now, tokenVars, op, arg, callVars, resp, result, batchVars>>

\* `return self.access_token` sits inside the two `async with` blocks: their
\* __aexit__ (response released, session and connector closed) is awaited
\* before the caller resumes with the value fixed at the return statement.
\* Whether that await yields to the event loop depends on the aiohttp
\* build, so other callers may or may not run in between.
GetTokenReturn(p) ==
    /\ pc[p] = "auth_exit"
    /\ SendRoomRequest(p, tok[p])
    /\ UNCHANGED <<normVars, now, tokenVars, op, arg, callVars, resp, result, batchVars>>

\* ------------------------------------------------------- room operations
\* The room request fails in transport
RoomTransportFail(p) ==
    /\ pc[p] = "room_post"
    /\ resp' = [resp EXCEPT ![p] =
                  [ep |-> "room", sent |-> FALSE, status |-> 0,
                   body |-> Unparsable]]
    /\ ev' = [ev EXCEPT ![p] = Append(@, [kind |-> "failure"])]
    /\ Raise(p, "ClientError")
    /\ UNCHANGED <<normVars, now, tokenVars, op, arg, callVars, batchVars>>

\* Slip: every success status taken for "no content"
DisableResultAny2xx(s) == s >= 200 /\ s < 300

\* disable_transcription / disable_room: return response.status == 204
DisableResult(s) == s = NoContent

\* Slip: a creation without room fields skipped, the batch carrying on
BatchRecordSkipFailed(p, room_data) ==
    /\ rooms' = [rooms EXCEPT ![p] =
          IF "roomId" \in DOMAIN room_data /\ "roomUrl" \in DOMAIN room_data
            THEN [t \in DOMAIN @ \cup {RoomTitle(idx[p])} |->
                    IF t = RoomTitle(idx[p]) THEN room_data.roomUrl ELSE @[t]]
            ELSE @]
    /\ sleeps' = [sleeps EXCEPT ![p] = @ + 1]
    /\ pc' = [pc EXCEPT ![p] = "sleep"]
    /\ result' = result

\* create_rooms loop body after create_room returned room_data:
\* room_id = room_data['roomId']; room_url = room_data['roomUrl'];
\* rooms[f"Room #{i+1}"] = room_url; await asyncio.sleep(1)
BatchRecord(p, room_data) ==
    IF ~("roomId" \in DOMAIN room_data /\ "roomUrl" \in DOMAIN room_data)
      THEN /\ Raise(p, "KeyError")
           /\ UNCHANGED <<rooms, sleeps>>
      ELSE /\ rooms' = [rooms EXCEPT ![p] =
                  [t \in DOMAIN @ \cup {RoomTitle(idx[p])} |->
                      IF t = RoomTitle(idx[p]) THEN room_data.roomUrl ELSE @[t]]]
           /\ sleeps' = [sleeps EXCEPT ![p] = @ + 1]
           /\ pc' = [pc EXCEPT ![p] = "sleep"]
           /\ result' = result

\* The room response arrives and the operation finishes with it
RoomComplete(p) ==
    /\ pc[p] = "room_post"
    /\ \E s \in Statuses, b \in BodiesOf(RoomRequestOf(op[p])) :
        /\ resp' = [resp EXCEPT ![p] =
                      [ep |-> "room", sent |-> TRUE, status |-> s, body |-> b]]
        /\ ev' = [ev EXCEPT ![p] = Append(@,
                    [kind |-> "response", status |-> s, body |-> b])]
        /\ IF op[p] \in {"disable_transcription", "disable_room"}
             THEN /\ Return(p, DisableResult(s))
                  /\ UNCHANGED <<rooms, sleeps>>
             ELSE IF ~b.json
             THEN /\ Raise(p, "ContentTypeError")
                  /\ UNCHANGED <<rooms, sleeps>>
             ELSE IF op[p] = "create_rooms"
             THEN BatchRecord(p, b.obj)
             ELSE /\ Return(p, b.obj)
                  /\ UNCHANGED <<rooms, sleeps>>
    /\ UNCHANGED <<normVars, now, tokenVars, op, arg, callVars, count, idx, saved_file>>

\* ------------------------------------------------------- create_rooms
\* for i in range(count): the next iteration calls api.create_room, and
\* after the last one the mapping is dumped to save_path and returned
LoopHead(p) ==
    /\ pc[p] = "loop"
    /\ IF idx[p] < count[p]
         THEN /\ arg' = [arg EXCEPT ![p] = RoomTitle(idx[p])]
              /\ pc' = [pc EXCEPT ![p] = "call"]
              /\ UNCHANGED <<result, saved_file>>
         ELSE /\ saved_file' = rooms[p]
              /\ Return(p, rooms[p])
              /\ arg' = arg
    /\ UNCHANGED <<normVars, now, tokenVars, op, callVars, resp, ev, count, idx, rooms,
                   sleeps>>

\* asyncio.sleep(1) is over: the loop variable advances
WakeUp(p) ==
    /\ pc[p] = "sleep"
    /\ now + SleepSeconds <= MaxTime
    /\ now' = now + SleepSeconds
    /\ idx' = [idx EXCEPT ![p] = @ + 1]
    /\ pc' = [pc EXCEPT ![p] = "loop"]
    /\ UNCHANGED <<normVars, tokenVars, op, arg, callVars, resp, result, ev, count,
                   rooms, sleeps, saved_file>>

\* The wall clock advances while coroutines are suspended
Tick ==
    /\ now + TickStep <= MaxTime
    /\ now' = now + TickStep
    /\ UNCHANGED <<normVars, tokenVars, pc, op, arg, callVars, resp, result, ev,
                   batchVars>>

\* Steps every caller of the client takes
ClientStep(p) ==
    \/ GetTokenHit(p)
    \/ GetTokenMiss(p)
    \/ AuthTransportFail(p)
    \/ AuthComplete(p)
    \/ GetTokenReturn(p)
    \/ RoomTransportFail(p)
    \/ RoomComplete(p)

\* Concurrent callers, each running one room operation
Next ==
    \/ Tick
    \/ \E p \in Procs : StartRoomOp(p) \/ ClientStep(p)

Spec == Init /\ [][Next]_vars

\* One caller running the batch provisioner
NextBatch ==
    \/ Tick
    \/ StartCreateRooms(1)
    \/ ClientStep(1)
    \/ LoopHead(1)
    \/ WakeUp(1)

SpecBatch == Init /\ [][NextBatch]_vars

\* ------------------------------------------------ get_room_transcription
\* Room URLs a caller may pass
RoomUrls == UNION {[1..n -> UrlChars] : n \in 0..MaxUrlLen}

\* get_room_transcription(room_url) up to its await: the room id is cut out
\* of the URL and api.get_transcriptions(room_id) is entered
StartGetRoomTranscription ==
    /\ grt.stage = "idle"
    /\ pc[1] = "idle"
    /\ \E room_url \in RoomUrls :
        /\ grt' = [stage |-> "await", room_url |-> room_url,
                   room_id |-> RoomIdOf(room_url), result |-> NoResult]
        /\ arg' = [arg EXCEPT ![1] = RoomIdOf(room_url)]
    /\ op' = [op EXCEPT ![1] = "get_transcriptions"]
    /\ pc' = [pc EXCEPT ![1] = "call"]
    /\ UNCHANGED <<now, tokenVars, callVars, resp, result, ev, batchVars,
                   nin, nout, log_file, log_printed>>

\* Allow-lists the caller of the fetch goes on to parse with
FetchNames == {{"Alice"}, {"Alice", "Bob"}}

\* api.get_transcriptions is over: its exception propagates, or the payload
\* is dumped to text, logged and returned; the caller may then hand the
\* text to parse_transcriptions
FinishGetRoomTranscription ==
    /\ grt.stage = "await"
    /\ pc[1] = "done"
    /\ IF result[1].kind = "raise"
         THEN /\ grt' = [grt EXCEPT !.stage = "done", !.result = result[1]]
              /\ UNCHANGED <<nin, log_file, log_printed>>
         ELSE LET result_json == JsonDumps(result[1].val) IN
              \E written \in BOOLEAN :
                /\ log_file' =
                     IF written
                       THEN Append(log_file,
                                   LogEntry(grt.room_id, result_json, NoText,
                                            now))
                       ELSE log_file
                /\ log_printed' =
                     Append(log_printed, IF written THEN "saved" ELSE "error")
                /\ IF LogRaises(written)
                     THEN /\ grt' = [grt EXCEPT !.stage = "done",
                                       !.result = [kind |-> "raise",
                                                   val |-> "OSError"]]
                          /\ nin' = nin
                     ELSE /\ grt' = [grt EXCEPT !.stage = "done",
                                       !.result = [kind |-> "return",
                                                   val |-> result_json]]
                          /\ \E names \in FetchNames :
                               nin' = [set |-> TRUE,
                                       transcriptions_json |-> result_json,
                                       known_names |-> names,
                                       start_time |-> NoBound,
                                       end_time |-> NoBound]
    /\ UNCHANGED <<now, tokenVars, pc, op, arg, callVars, resp, result, ev,
                   batchVars, nout>>

\* ---------------------------------------------------- parse_transcriptions
\* Slip: the lines of earlier calls kept and rendered again
ParseResultKeeping(text) ==
    IF nout # <<>> /\ nout[Len(nout)].kind = "return"
         /\ text.kind = "return"
      THEN [text EXCEPT !.val = nout[Len(nout)].val \o @]
      ELSE text

\* What a call makes of the text it rendered: nothing but that text (or the
\* exception); filtered_transcriptions and dialog_lines start empty each call
ParseResult(text) == text

\* One call of parse_transcriptions with the caller's arguments: the text is
\* rendered, handed to log_transcription with the raw payload, and returned
ParseCall ==
    /\ nin.set
    /\ Len(nout) < MaxCalls
    /\ LET text == ParseResult(ParsedText(nin.transcriptions_json,
                                          nin.known_names, nin.start_time,
                                          nin.end_time))
       IN  IF text.kind = "raise"
             THEN /\ nout' = Append(nout, text)
                  /\ UNCHANGED <<log_file, log_printed>>
             ELSE \E written \in BOOLEAN :
                    /\ log_file' =
                         IF written
                           THEN Append(log_file,
                                  LogEntry(LogRoomId(JsonLoads(
                                               nin.transcriptions_json)),
                                           nin.transcriptions_json,
                                           Text(text.val), now))
                           ELSE log_file
                    /\ log_printed' =
                         Append(log_printed,
                                IF written THEN "saved" ELSE "error")
                    /\ nout' = Append(nout,
                                 IF LogRaises(written)
                                   THEN [kind |-> "raise", val |-> "OSError"]
                                   ELSE text)
    /\ UNCHANGED <<now, tokenVars, pc, op, arg, callVars, resp, result, ev,
                   batchVars, grt, nin>>

\* Payloads given to the parser: any list of up to MaxEntries entries, with
\* or without a room id, or an object without a transcriptions field
EntryLists == UNION {[1..n -> Entries] : n \in 0..MaxEntries}
Payloads ==
    {[transcriptions |-> l] : l \in EntryLists}
        \cup {[transcriptions |-> l, roomId |-> "room-1"] : l \in EntryLists}
        \cup {ErrorObj, [roomId |-> "room-1"]}
AllowLists == {{}, {"Alice"}, {"Alice", "Bob"}}
\* 14:30, 15:00 and 15:30 without an offset; 12:00+00:00 and 17:00+05:00
StartTimes == {NoBound, Naive(870), Naive(900), Aware(720, 0)}
EndTimes == {NoBound, Naive(930), Naive(900), Aware(1020, 5)}

\* A caller holding arguments for parse_transcriptions
InitParse ==
    /\ InitCallers
    /\ InitSlot
    /\ \E d \in Payloads, names \in AllowLists, st \in StartTimes,
          en \in EndTimes :
         nin = [set |-> TRUE, transcriptions_json |-> JsonDumps(d),
                known_names |-> names, start_time |-> st, end_time |-> en]

\* The parser called, and called again, with the same arguments
SpecParse == InitParse /\ [][ParseCall]_vars

\* The slot as __init__ leaves it, or as an earlier operation filled it
InitTranscript ==
    /\ InitCallers
    /\ nin = NoArgs
    /\ \/ InitSlot
       \/ \E t \in Tokens :
            /\ access_token = t
            /\ token_expires = TokenTTL
            /\ lastDone = [by |-> 2, token |-> t, at |-> 0]

\* One caller fetching a room's transcription and parsing what it got
NextTranscript ==
    \/ StartGetRoomTranscription
    \/ ClientStep(1)
    \/ FinishGetRoomTranscription
    \/ ParseCall

SpecTranscript == InitTranscript /\ [][NextTranscript]_vars


\* ======================================================== properties
\* Steps of one caller, told by where it was and where it is
Checked(p) == pc[p] = "call" /\ pc'[p] # "call"
Stored(p) == pc[p] = "auth_post" /\ pc'[p] = "auth_exit"
Resumed(p) == pc[p] \in {"call", "auth_exit"} /\ pc'[p] = "room_post"

Is2xx(s) == s >= 200 /\ s < 300

\* A token is in the slot and the clock is strictly before its expiry
SlotFresh == access_token # None /\ now < token_expires

\* C1: a getToken call made while a token is cached and the time is strictly
\* before the recorded expiry issues no auth exchange, returns exactly the
\* cached value and leaves the cached token and expiry unchanged.
C1_CacheHit ==
    [][\A p \in Procs :
        (Checked(p) /\ SlotFresh) =>
            /\ exch'[p] = 0
            /\ pc'[p] = "room_post"
            /\ tok'[p] = access_token
            /\ access_token' = access_token
            /\ token_expires' = token_expires]_vars

C1_Witness ==
    \E p \in Procs :
        /\ via[p] = "hit" /\ pc[p] = "room_post"
        /\ tok[p] \in Tokens /\ tok[p] = access_token
        /\ exch[p] = 0 /\ now < token_expires

\* C2 as stated: a getToken call made with no token cached or at/after the
\* expiry issues exactly one auth exchange, and when the exchange succeeds
\* the cached expiry is the time of the getToken call plus 3600 seconds.
C2_ExpiryFromCallTime ==
    [][\A p \in Procs :
        /\ (Checked(p) /\ ~SlotFresh) =>
              (pc'[p] = "auth_post" /\ exch'[p] = 1)
        /\ Stored(p) =>
              (exch[p] = 1 /\ token_expires' = jwt[p].iat + TokenTTL)]_vars

\* C2 amended: a getToken call made with no token cached or at/after the
\* expiry issues exactly one auth exchange, and when the exchange succeeds
\* the cached expiry is the time at which the response was processed plus
\* 3600 seconds, which is never before the call time plus 3600.
C2_ExpiryFromCompletionTime ==
    [][\A p \in Procs :
        /\ (Checked(p) /\ ~SlotFresh) =>
              (pc'[p] = "auth_post" /\ exch'[p] = 1)
        /\ Stored(p) =>
              /\ exch[p] = 1
              /\ token_expires' = now + TokenTTL
              /\ token_expires' >= jwt[p].iat + TokenTTL]_vars

C2_Witness ==
    \E p \in Procs :
        /\ via[p] = "refresh" /\ pc[p] = "auth_exit" /\ exch[p] = 1
        /\ lastDone.by = p /\ lastDone.at > jwt[p].iat
        /\ token_expires = lastDone.at + TokenTTL

\* C3 as stated: whenever a getToken call returns a token to its caller, by
\* cache hit or after a refresh, the returned value is the token in the slot
\* and the time is strictly before the slot's expiry.
C3_ValidAtReturn ==
    [][\A p \in Procs :
        (Resumed(p) /\ tok'[p] \in Tokens) =>
            (tok'[p] = access_token' /\ now' < token_expires')]_vars

\* C3 amended: whenever a getToken call fixes the value it returns (the
\* cache-hit check, or the store that follows a refresh, before the HTTP
\* response and session are closed), that value is the token in the slot and
\* the time is strictly before the slot's expiry.
C3_ValidWhenFixed ==
    [][\A p \in Procs :
        ((Checked(p) /\ pc'[p] = "room_post") \/ Stored(p)) =>
            (tok'[p] = access_token' /\ now' < token_expires')]_vars

C3_Witness ==
    \E p, q \in Procs :
        /\ p # q
        /\ pc[p] = "auth_exit" /\ tok[p] = access_token /\ tok[p] \in Tokens
        /\ now < token_expires
        /\ pc[q] = "room_post" /\ via[q] = "hit" /\ tok[q] = access_token

\* C4: two callers that both pass the expired-token check before either
\* exchange completes both issue an exchange; whatever exchanges have
\* completed, the slot holds the token of the one that completed last
\* together with that exchange's own expiry (completion time + 3600).
C4_LastWriteWins ==
    /\ \A p \in Procs : pc[p] = "auth_post" => exch[p] = 1
    /\ lastDone.by # 0 =>
          /\ access_token = lastDone.token
          /\ token_expires = lastDone.at + TokenTTL

\* Both callers missed at time 0, each before the other's exchange
\* completed, and the two exchanges completed at different times
C4_Witness ==
    /\ via[1] = "refresh" /\ via[2] = "refresh"
    /\ jwt[1].iat = 0 /\ jwt[2].iat = 0
    /\ tok[1] = "tokA" /\ tok[2] = "tokB"
    /\ lastDone.by = 2 /\ lastDone.at > 0
    /\ access_token = "tokB"

\* An auth exchange that failed: no response, a non-success status, a body
\* that is no JSON, or no usable token in it
AuthExchangeFailed(r) ==
    /\ r.ep = "auth"
    /\ \/ ~r.sent
       \/ ~Is2xx(r.status)
       \/ ~r.body.json
       \/ ~HasField(r.body, "token")
       \/ r.body.obj.token = None

\* C5: getToken fails, returning no token, whenever the auth exchange fails
\* or returns a body without a usable token field (any exception that
\* leaves getToken is taken as the AuthError outcome).
C5_AuthErrorOnFailedExchange ==
    \A p \in Procs :
        AuthExchangeFailed(resp[p]) =>
            (pc[p] = "done" /\ result[p].kind = "raise")

\* C6: create_room and get_transcriptions fail whenever the remote answers
\* with a non-2xx status or an unparsable body; the body of a non-2xx
\* response is never returned as a result.
C6_ErrorOnNon2xx ==
    \A p \in Procs :
        (/\ op[p] \in {"create_room", "get_transcriptions"}
         /\ resp[p].ep = "room" /\ resp[p].sent
         /\ (~Is2xx(resp[p].status) \/ ~resp[p].body.json)) =>
            result[p].kind = "raise"

\* C7: disable_transcription and disable_room return true exactly when the
\* response status is 204, and false for every other status.
C7_TrueIffNoContent ==
    \A p \in Procs :
        (/\ op[p] \in {"disable_transcription", "disable_room"}
         /\ resp[p].ep = "room" /\ resp[p].sent) =>
            /\ pc[p] = "done"
            /\ result[p].kind = "return"
            /\ result[p].val = (resp[p].status = 204)

C7_Witness ==
    /\ op[1] = "disable_transcription" /\ op[2] = "disable_room"
    /\ resp[1].ep = "room" /\ resp[1].status = 204
    /\ result[1].kind = "return" /\ result[1].val = TRUE
    /\ resp[2].ep = "room" /\ resp[2].status = 200
    /\ result[2].kind = "return" /\ result[2].val = FALSE

\* Room requests caller p has sent
Requests(p) == {i \in 1..Len(ev[p]) : ev[p][i].kind = "request"}

\* C8: a room operation sends its request only after its own getToken call
\* has returned, with exactly the value that call returned as the bearer,
\* and sends nothing when getToken fails.
C8_TokenBeforeRequest ==
    \A p \in Procs :
        /\ pc[p] \in {"idle", "call", "auth_post", "auth_exit"} => ev[p] = <<>>
        /\ (resp[p].ep = "auth" /\ result[p].kind = "raise") => ev[p] = <<>>
        /\ \A i \in Requests(p) :
              /\ via[p] \in {"hit", "refresh"}
              /\ ev[p][i].bearer = tok[p]
              /\ ev[p][i].op = op[p]

\* A caller resumed from a refresh with its own token after another caller's
\* exchange replaced the token in the slot
C8_Witness ==
    \E p \in Procs :
        /\ via[p] = "refresh" /\ pc[p] = "room_post"
        /\ Requests(p) = {1}
        /\ ev[p][1].bearer = tok[p]
        /\ tok[p] \in Tokens /\ access_token \in Tokens
        /\ tok[p] # access_token

\* Batches that ran to the end and returned their mapping
BatchReturned(p) ==
    op[p] = "create_rooms" /\ pc[p] = "done" /\ result[p].kind = "return"

\* C9: a batch of count = N whose creations all succeed issues exactly N
\* create calls, one at a time and in the order of the titles "Room #1" ..
\* "Room #N", and returns and persists a mapping whose keys are exactly
\* these titles, each mapped to the roomUrl its own create call returned.
C9_BatchSequential ==
    \A p \in Procs :
        /\ \A i \in 1..Len(ev[p]) :
              (i % 2 = 1) <=> (ev[p][i].kind = "request")
        /\ BatchReturned(p) =>
              /\ Len(ev[p]) = 2 * count[p]
              /\ \A i \in 1..count[p] :
                    /\ ev[p][2 * i - 1].op = "create_room"
                    /\ ev[p][2 * i - 1].arg = <<"Room #", i>>
                    /\ ev[p][2 * i].kind = "response"
                    /\ result[p].val[<<"Room #", i>>]
                          = ev[p][2 * i].body.obj.roomUrl
              /\ DOMAIN result[p].val = {<<"Room #", i>> : i \in 1..count[p]}
              /\ saved_file = result[p].val

C9_Witness ==
    /\ BatchReturned(1) /\ count[1] = 3
    /\ result[1].val[<<"Room #", 1>>] = "https://x/y/r1"
    /\ result[1].val[<<"Room #", 2>>] = "https://x/y/r2"
    /\ result[1].val[<<"Room #", 3>>] = "https://x/y/r1"
    /\ saved_file = result[1].val

\* C10: a batch delays one second after each creation that is followed by
\* another creation and not after the final one, so a batch of N rooms that
\* succeeds has performed exactly N-1 delays.
C10_NoDelayAfterLast ==
    \A p \in Procs :
        /\ pc[p] = "sleep" => idx[p] + 1 < count[p]
        /\ (BatchReturned(p) /\ count[p] >= 1) => sleeps[p] = count[p] - 1

\* A batch that ended with an exception
BatchFailed(p) ==
    op[p] = "create_rooms" /\ pc[p] = "done" /\ result[p].kind = "raise"

\* An answer to a create call that gives no room: no response at all, a
\* body that is no JSON, or a body without roomId / roomUrl
FailedAnswer(e) ==
    \/ e.kind = "failure"
    \/ /\ e.kind = "response"
       /\ \/ ~e.body.json
          \/ ~("roomId" \in DOMAIN e.body.obj /\ "roomUrl" \in DOMAIN e.body.obj)

\* C11: when the k-th creation of a batch fails, the mapping is never
\* written to the store, no create call for a later label is issued, and no
\* disable or other compensating request is sent: rooms 1..k-1 stay as the
\* remote created them.
C11_NoPersistNoRollback ==
    \A p \in Procs :
        op[p] = "create_rooms" =>
            /\ \A i \in 1..Len(ev[p]) :
                  FailedAnswer(ev[p][i]) => (i = Len(ev[p]) /\ BatchFailed(p))
            /\ BatchFailed(p) =>
                  /\ \A i \in Requests(p) :
                        /\ ev[p][i].op = "create_room"
                        /\ ev[p][i].arg = <<"Room #", (i + 1) \div 2>>
                        /\ (i + 1) \div 2 <= idx[p] + 1
                  /\ \A k \in 1..idx[p] :
                        /\ ev[p][2 * k].kind = "response"
                        /\ rooms[p][<<"Room #", k>>]
                              = ev[p][2 * k].body.obj.roomUrl
                  /\ saved_file = None

\* The second creation of a batch of three failed after the first succeeded
C11_Witness ==
    /\ BatchFailed(1) /\ count[1] = 3 /\ idx[1] = 1
    /\ Len(ev[1]) = 4 /\ FailedAnswer(ev[1][4])
    /\ DOMAIN rooms[1] = {<<"Room #", 1>>}
    /\ saved_file = None

\* C12: when a room creation inside create_rooms fails, the whole operation
\* ends in a ProvisioningError wrapping the failure, not in a returned
\* mapping and not in an error of another kind.
C12_ProvisioningError ==
    \A p \in Procs :
        (/\ op[p] = "create_rooms"
         /\ \/ result[p].kind = "raise"
            \/ \E i \in 1..Len(ev[p]) : FailedAnswer(ev[p][i])) =>
            /\ result[p].kind = "raise"
            /\ result[p].val = "ProvisioningError"

\* The getToken call of caller p ended with an exception
RefreshFailed(p) == resp[p].ep = "auth" /\ result[p].kind = "raise"

\* C20: an auth exchange that fails, or whose body has no token field,
\* leaves the cached token and the cached expiry as they were (the expiry
\* moves only in a step that stores a token), so a getToken call made
\* afterwards with an empty or expired slot issues a new exchange.
C20_FailedRefreshKeepsSlot ==
    [][/\ \A p \in Procs :
            (pc[p] = "auth_post" /\ pc'[p] = "done") =>
                /\ RefreshFailed(p)'
                /\ access_token' = access_token
                /\ token_expires' = token_expires
       /\ token_expires' # token_expires =>
             \E p \in Procs : Stored(p) /\ access_token' = tok'[p]
       /\ \A q \in Procs :
            (/\ Checked(q)
             /\ \E p \in Procs : RefreshFailed(p)
             /\ ~SlotFresh) =>
                (pc'[q] = "auth_post" /\ exch'[q] = 1)]_vars

\* Caller 2 stored a token that has expired since; caller 1 then missed, its
\* exchange failed, and the slot is as caller 2 left it
C20_Witness ==
    /\ RefreshFailed(1) /\ jwt[1].iat >= token_expires
    /\ access_token \in Tokens /\ access_token = tok[2]
    /\ lastDone.by = 2 /\ token_expires = lastDone.at + TokenTTL
    /\ now >= token_expires

\* ------------------------------------------------------------ normalizer
\* The transcriptions list of the payload the parser is called with
Given == Get(JsonLoads(nin.transcriptions_json), "transcriptions", <<>>)

\* The entry names a participant of the allow-list
Allowed(t) ==
    "participantName" \in DOMAIN t /\ t.participantName \in nin.known_names

\* A bound in UTC minutes: its own offset, or three hours when it has none
BoundUtc(b) == IF b.aware THEN b.t - 60 * b.off ELSE b.t - 180

\* startUtc <= createdAtUtc <= endUtc, an absent bound imposing nothing
InWindow(t) ==
    /\ nin.start_time.set => BoundUtc(nin.start_time) <= t.createdAt
    /\ nin.end_time.set => t.createdAt <= BoundUtc(nin.end_time)

AllowedInWindow(t) == Allowed(t) /\ InWindow(t)

Windowed == nin.start_time.set \/ nin.end_time.set

\* text is one line "<participantName>: <text>" per entry of kept, in
\* order, the lines separated by newlines
Renders(text, kept) ==
    /\ Len(text) = IF kept = <<>> THEN 0 ELSE 4 * Len(kept) - 1
    /\ \A j \in 1..Len(kept) :
         /\ text[4 * j - 3] = kept[j].participantName
         /\ text[4 * j - 2] = ": "
         /\ text[4 * j - 1] = kept[j].text
         /\ j < Len(kept) => text[4 * j] = "\n"

\* C13: with no window, the output is exactly one line "<name>: <text>" per
\* payload entry whose participant name is in the allow-list by exact
\* match, in the original order, none added, dropped, duplicated or
\* reordered.
C13_FilterAndOrder ==
    ~Windowed =>
        \A i \in 1..Len(nout) :
            /\ nout[i].kind = "return"
            /\ Renders(nout[i].val, SelectSeq(Given, Allowed))

C13_Witness ==
    /\ ~Windowed
    /\ nin.known_names = {"Alice"}
    /\ Given = <<EntryAlice11, EntryLower, EntryBob12>>
    /\ Len(nout) >= 1
    /\ nout[1].val = <<"Alice", ": ", "hi">>

\* C14: with a window, an allowed entry survives iff startUtc <=
\* createdAtUtc <= endUtc, both bounds inclusive and an absent bound open,
\* a bound without an offset being civil time at +3 hours and a bound with
\* an offset converted by that offset.
C14_Window ==
    Windowed =>
        \A i \in 1..Len(nout) :
            nout[i].kind = "return" =>
                Renders(nout[i].val, SelectSeq(Given, AllowedInWindow))

C14_Witness ==
    /\ nin.start_time = Naive(870) /\ nin.end_time = Naive(930)
    /\ nin.known_names = {"Alice", "Bob"}
    /\ Given = <<EntryAlice11, EntryBob12, EntryAlice13>>
    /\ Len(nout) >= 1
    /\ nout[1].kind = "return" /\ nout[1].val = <<"Bob", ": ", "yo">>

Removed(t) ==
    \/ ~Allowed(t)
    \/ Windowed /\ "createdAt" \in DOMAIN t /\ ~InWindow(t)

\* C16: a payload without a transcriptions field, with an empty list, or
\* whose entries are all removed by the allow-list or the window yields the
\* empty string and no error.
C16_EmptyCases ==
    (\A k \in 1..Len(Given) : Removed(Given[k])) =>
        \A i \in 1..Len(nout) :
            nout[i].kind = "return" /\ nout[i].val = <<>>

C16_Witness ==
    /\ Len(nout) >= 1 /\ nout[1].kind = "return" /\ nout[1].val = <<>>
    /\ Given = <<EntryAlice13, EntryNameless, EntryBob12>>
    /\ nin.known_names = {"Alice"}
    /\ nin.end_time = Naive(900)

\* The trailing path segment of a URL, its query string removed: the path
\* ends before the first "?", the segment starts after the path's last "/"
PathOf(url) ==
    IF \E i \in 1..Len(url) : url[i] = "?"
      THEN SubSeq(url, 1,
                  (CHOOSE i \in 1..Len(url) :
                      url[i] = "?" /\ \A k \in 1..(i - 1) : url[k] # "?") - 1)
      ELSE url
TrailingSegment(path) ==
    IF \E i \in 1..Len(path) : path[i] = "/"
      THEN SubSeq(path,
                  (CHOOSE i \in 1..Len(path) :
                      path[i] = "/"
                      /\ \A k \in (i + 1)..Len(path) : path[k] # "/") + 1,
                  Len(path))
      ELSE path

\* C17: for every room URL, the room id get_room_transcription uses is the
\* trailing path segment of the URL with any query string removed, also
\* when the query string itself contains a "/".
C17_RoomIdIsTrailingSegment ==
    /\ grt.stage # "idle" => grt.room_id = TrailingSegment(PathOf(grt.room_url))
    /\ grt.stage # "idle" =>
         \A i \in Requests(1) :
            /\ ev[1][i].op = "get_transcriptions"
            /\ ev[1][i].arg = TrailingSegment(PathOf(grt.room_url))

\* C18: a failing log write never aborts or changes the result: the fetch
\* returns the payload text it got (or raises what the client raised), and
\* the parser returns the same rendered text, whether the write succeeded
\* or failed.
C18_LogFailureHarmless ==
    /\ grt.stage = "done" =>
         /\ grt.result.kind = result[1].kind
         /\ grt.result.val = IF result[1].kind = "return"
                               THEN JsonDumps(result[1].val)
                               ELSE result[1].val
    /\ \A i \in 1..Len(nout) :
         /\ nout[i].kind = "return"
         /\ \A j \in 1..Len(nout) : nout[j] = nout[i]

C18_Witness ==
    /\ grt.stage = "done" /\ grt.result.kind = "return"
    /\ Len(nout) = 2 /\ nout[1].val # <<>>
    /\ log_printed = <<"error", "error", "saved">>
    /\ Len(log_file) = 1

\* C19: every successful call of the parser delivers the raw payload and
\* the rendered text to the log, also when the text is the empty string,
\* under the payload's room id when it has one and a placeholder otherwise.
C19_LogCarriesBoth ==
    \A i \in 1..Len(nout) :
        (nout[i].kind = "return" /\ log_printed[i] = "saved") =>
            \E k \in 1..Len(log_file) :
                /\ log_file[k].raw = nin.transcriptions_json
                /\ log_file[k].room_id =
                     Get(JsonLoads(nin.transcriptions_json), "roomId",
                         "unknown")
                /\ log_file[k].has_parsed
                /\ log_file[k].parsed = nout[i].val

====
